---- MODULE Spec2Model ----
(***************************************************************************)
(* Device-override wrappers around VideoHelperSuite nodes (src/nodes.py)   *)
(* and the GPU selector nodes (src/gpu_selector_pipe.py).                  *)
(*                                                                         *)
(* Four specifications share the definitions below:                       *)
(*   SpecReloc  GPUSelectorAny.move_to_device applied to bounded values    *)
(*   SpecSeq    execute() calls of the wrappers, one in flight at a time   *)
(*   Spec       execute() calls of two threads, freely interleaved         *)
(*   SpecNested execute() called again from inside a wrapped entry point   *)
(***************************************************************************)
EXTENDS Integers, Sequences, FiniteSets, TLC

\* ------------------------------------------------------------------ bounds
\* longest list/tuple and largest dict handed to a GPU selector node
MaxLen == 2
\* how many GPU selector nodes are chained one after the other
MaxChain == 2
\* how many execute() calls the two uncoordinated threads start in all
MaxCalls == 2

\* ------------------------------------------------------------- Python values
\* Every Python value is a record tagged by its runtime type.
Tensor(d, x) == [kind |-> "tensor", dev |-> d, data |-> x]
None == [kind |-> "None"]
Opaque(x) == [kind |-> "opaque", data |-> x]
List(s) == [kind |-> "list", items |-> s]
Tuple(s) == [kind |-> "tuple", items |-> s]
Dict(m) == [kind |-> "dict", map |-> m]
\* an exception in flight, standing where a value would be returned
Raise(e) == [kind |-> "raise", exc |-> e]

\* isinstance(v, torch.Tensor)
IsTensor(v) == v.kind = "tensor"
IsRaise(v) == v.kind = "raise"

\* exceptions: isException tells Exception subclasses from bare BaseException ones
RelocationError == [type |-> "RuntimeError: device unavailable", isException |-> TRUE]
DeviceError == [type |-> "RuntimeError: invalid device string", isException |-> TRUE]
NotFoundError == [type |-> "RuntimeError: VHS node not found", isException |-> TRUE]
UnitExceptions ==
    { [type |-> "ValueError", isException |-> TRUE],
      [type |-> "KeyboardInterrupt", isException |-> FALSE] }
NoExc == [type |-> "none", isException |-> FALSE]

\* ------------------------------------------------------------------ devices
\* device identifiers a caller may pass; "gpu0" is not a torch device string,
\* "cuda:7" parses but names a device the machine does not have
DeviceIds == {"cpu", "cuda:0", "cuda:7", "gpu0"}
Parseable == {"cpu", "cuda:0", "cuda:7"}
Available == {"cpu", "cuda:0"}

\* tensor.to(device): a new tensor with the same data on the device, or an error
\* when the device cannot hold tensors
ToDevice(t, d) ==
    IF d \in Available THEN [t EXCEPT !.dev = d] ELSE Raise(RelocationError)

\* item.to(device) if isinstance(item, torch.Tensor) else item
MoveItem(item, d) == IF IsTensor(item) THEN ToDevice(item, d) ELSE item

\* ------------------------------------------- GPUSelectorAny.move_to_device
\* A mutation of move_to_device: the sequence branch skips the first item.
move_to_device_skip_first(input_data, device) ==
    IF input_data.kind = "None" THEN Tuple(<<input_data>>)
    ELSE IF IsTensor(input_data) THEN
        LET moved_data == ToDevice(input_data, device)
        IN  IF IsRaise(moved_data) THEN moved_data ELSE Tuple(<<moved_data>>)
    ELSE IF input_data.kind \in {"list", "tuple"} THEN
        LET rest == IF input_data.items = <<>> THEN <<>> ELSE Tail(input_data.items)
            moved == [i \in 1..Len(rest) |-> MoveItem(rest[i], device)]
        IN  IF \E i \in 1..Len(moved) : IsRaise(moved[i])
            THEN Raise(RelocationError)
            ELSE Tuple(<<[kind |-> input_data.kind, items |-> moved]>>)
    ELSE IF input_data.kind = "dict" THEN
        LET moved == [k \in DOMAIN input_data.map |-> MoveItem(input_data.map[k], device)]
        IN  IF \E k \in DOMAIN moved : IsRaise(moved[k])
            THEN Raise(RelocationError)
            ELSE Tuple(<<Dict(moved)>>)
    ELSE Tuple(<<input_data>>)

\* A mutation of move_to_device: every sequence is rebuilt as a list.
move_to_device_as_list(input_data, device) ==
    IF input_data.kind = "None" THEN Tuple(<<input_data>>)
    ELSE IF IsTensor(input_data) THEN
        LET moved_data == ToDevice(input_data, device)
        IN  IF IsRaise(moved_data) THEN moved_data ELSE Tuple(<<moved_data>>)
    ELSE IF input_data.kind \in {"list", "tuple"} THEN
        LET moved == [i \in 1..Len(input_data.items) |->
                         MoveItem(input_data.items[i], device)]
        IN  IF \E i \in 1..Len(moved) : IsRaise(moved[i])
            THEN Raise(RelocationError)
            ELSE Tuple(<<List(moved)>>)
    ELSE IF input_data.kind = "dict" THEN
        LET moved == [k \in DOMAIN input_data.map |-> MoveItem(input_data.map[k], device)]
        IN  IF \E k \in DOMAIN moved : IsRaise(moved[k])
            THEN Raise(RelocationError)
            ELSE Tuple(<<Dict(moved)>>)
    ELSE Tuple(<<input_data>>)

\* move_to_device(self, input_data, device): the node's return value is the
\* 1-tuple (moved_data,), or the error of the first .to() that fails
move_to_device(input_data, device) ==
    IF input_data.kind = "None" THEN Tuple(<<input_data>>)
    ELSE IF IsTensor(input_data) THEN
        LET moved_data == ToDevice(input_data, device)
        IN  IF IsRaise(moved_data) THEN moved_data ELSE Tuple(<<moved_data>>)
    ELSE IF input_data.kind \in {"list", "tuple"} THEN
        LET moved == [i \in 1..Len(input_data.items) |->
                         MoveItem(input_data.items[i], device)]
        IN  IF \E i \in 1..Len(moved) : IsRaise(moved[i])
            THEN Raise(RelocationError)
            ELSE Tuple(<<[kind |-> input_data.kind, items |-> moved]>>)
    ELSE IF input_data.kind = "dict" THEN
        LET moved == [k \in DOMAIN input_data.map |-> MoveItem(input_data.map[k], device)]
        IN  IF \E k \in DOMAIN moved : IsRaise(moved[k])
            THEN Raise(RelocationError)
            ELSE Tuple(<<Dict(moved)>>)
    ELSE Tuple(<<input_data>>)

\* ------------------------------------------------- values fed to the selector
TensorData == {"frames"}
Tensors == {Tensor(d, x) : d \in Available, x \in TensorData}
\* what a list, tuple or dict may hold: tensors, None, opaque values and a
\* nested list holding a tensor
Elements == Tensors \cup {None, Opaque("fps"), List(<<Tensor("cpu", "frames")>>)}
SeqsUpTo(S, n) == UNION {[1..m -> S] : m \in 0..n}
DictKeys == {"waveform", "sample_rate", "extra"}
Values ==
    Elements
    \cup {List(s) : s \in SeqsUpTo(Elements, MaxLen)}
    \cup {Tuple(s) : s \in SeqsUpTo(Elements, MaxLen)}
    \cup {Dict(m) : m \in UNION {[K -> Elements] :
                                  K \in {K \in SUBSET DictKeys : Cardinality(K) <= MaxLen}}}

\* ------------------------------------------------------------------- state
VARIABLES
    \* gpu_selector_pipe.py: a chain of GPU Selector (Any) nodes
    sel_input,            \* input_data of the first node
    sel_device,           \* device chosen on every node of the chain
    sel_outputs,          \* return values of the nodes run so far
    \* nodes.py: process-wide state
    accessor,             \* model_management.get_torch_device
    \* nodes.py: one execute() frame per thread
    pc,                   \* where the frame stands
    wrapper,              \* class whose execute() runs
    device,               \* the device argument
    kwargs,               \* the named inputs
    target_device,        \* torch.device(device)
    todo,                 \* keys the input loop has not visited yet
    moved_kwargs,
    original_get_device,
    unit_result,          \* what the wrapped entry point returned or raised
    result,
    exc,                  \* exception propagating out of the try block
    logged,               \* logger.error was called by the except clause
    outcome,              \* what execute() gave its caller
    entry_accessor,       \* history: the accessor when execute() was called
    to_calls,             \* history: number of tensor.to() calls made by the frame
    started               \* execute() calls started so far by the threads

selvars == <<sel_input, sel_device, sel_outputs>>
framevars ==
    <<pc, wrapper, device, kwargs, target_device, todo, moved_kwargs,
      original_get_device, unit_result, result, exc, logged, outcome,
      entry_accessor, to_calls>>
vars == <<selvars, accessor, framevars, started>>

\* ------------------------------------------------------- the accessor's values
\* the host's own get_torch_device, returning the host's device d
HostFn(d) == [fn |-> "host", dev |-> d]
\* lambda: target_device
Lambda(d) == [fn |-> "lambda", dev |-> d]
NoFn == [fn |-> "unset", dev |-> "none"]
\* model_management.get_torch_device()
get_torch_device == accessor.dev

\* ------------------------------------------------------------------ threads
Procs == {"A", "B"}

Base == "VHSMultiGPUWrapper"
LoadVideo == "VHS_LoadVideoWrapper"
VideoCombine == "VHS_VideoCombineWrapper"
Wrappers == {Base, LoadVideo, VideoCombine}
\* the placeholder wrappers look the wrapped class up in sys.modules on each call
Placeholders == {LoadVideo, VideoCombine}

\* ------------------------------------------------------ inputs of execute()
Keys == <<"images", "meta">>
KeySet == {Keys[i] : i \in 1..Len(Keys)}
CpuTensor == Tensor("cpu", "frames")
InputValues ==
    { CpuTensor, Tensor("cuda:0", "frames"), Opaque("fps"),
      List(<<CpuTensor, Opaque("fps")>>), Dict([waveform |-> CpuTensor]) }
Payloads == UNION {[K -> InputValues] : K \in SUBSET KeySet}
\* what a wrapped entry point may return
UnitReturns ==
    { CpuTensor, None, Opaque("filenames"),
      Tuple(<<CpuTensor, Opaque("fps")>>), List(<<CpuTensor>>),
      Dict([waveform |-> CpuTensor]) }
\* the smaller inputs of the interleaved specification
FewDevices == {"cpu", "cuda:0"}
FewPayloads == {[k \in {"images"} |-> CpuTensor]}
FewReturns == {Tuple(<<CpuTensor, Opaque("fps")>>)}

\* kwargs.items(): the keys of kw in their order
RECURSIVE ItemOrder(_, _)
ItemOrder(kw, i) ==
    IF i > Len(Keys) THEN <<>>
    ELSE IF Keys[i] \in DOMAIN kw THEN <<Keys[i]>> \o ItemOrder(kw, i + 1)
    ELSE ItemOrder(kw, i + 1)

Empty == [k \in {} |-> None]

\* ------------------------------------------------- pure steps of execute()
NoResult == [kind |-> "unset"]

\* the body of the input loop: value.to(target_device) for a tensor, else value
MoveInputValue(value, target) ==
    IF IsTensor(value) THEN ToDevice(value, target) ELSE value

\* "Move output tensors to target device": items of a tuple or list, or a
\* single tensor; any other result is returned as it is
MoveResult(res, target) ==
    IF res.kind \in {"tuple", "list"} THEN
        LET moved == [i \in 1..Len(res.items) |-> MoveItem(res.items[i], target)]
        IN  IF \E i \in 1..Len(moved) : IsRaise(moved[i])
            THEN Raise(RelocationError)
            ELSE [kind |-> res.kind, items |-> moved]
    ELSE IF IsTensor(res) THEN ToDevice(res, target)
    ELSE res

\* number of .to() calls MoveResult makes: it stops at the first that raises
ResultToCalls(res, target) ==
    LET n == IF res.kind \in {"tuple", "list"}
             THEN Cardinality({i \in 1..Len(res.items) : IsTensor(res.items[i])})
             ELSE IF IsTensor(res) THEN 1 ELSE 0
    IN  IF target \in Available \/ n = 0 THEN n ELSE 1

\* where an exception raised inside the try block goes next: the base class has
\* an "except Exception" clause, the placeholder wrappers only a finally
AfterRaise(w, e) == IF w = Base /\ e.isException THEN "except" ELSE "finally"

\* ------------------------------------------------------------ initial states
IdleFrames ==
    /\ pc = [p \in Procs |-> "idle"]
    /\ wrapper = [p \in Procs |-> "none"]
    /\ device = [p \in Procs |-> "none"]
    /\ kwargs = [p \in Procs |-> Empty]
    /\ target_device = [p \in Procs |-> "none"]
    /\ todo = [p \in Procs |-> <<>>]
    /\ moved_kwargs = [p \in Procs |-> Empty]
    /\ original_get_device = [p \in Procs |-> NoFn]
    /\ unit_result = [p \in Procs |-> NoResult]
    /\ result = [p \in Procs |-> NoResult]
    /\ exc = [p \in Procs |-> NoExc]
    /\ logged = [p \in Procs |-> FALSE]
    /\ outcome = [p \in Procs |-> NoResult]
    /\ entry_accessor = [p \in Procs |-> NoFn]
    /\ to_calls = [p \in Procs |-> 0]
    /\ started = 0

\* no selector node is in the graph
NoSelector ==
    /\ sel_input = None
    /\ sel_device = "cpu"
    /\ sel_outputs = <<>>

\* the host's accessor returns whatever device the host runs on
Init ==
    /\ NoSelector
    /\ accessor \in {HostFn(d) : d \in Available}
    /\ IdleFrames

InitReloc ==
    /\ sel_input \in Values
    /\ sel_device \in DeviceIds
    /\ sel_outputs = <<>>
    /\ accessor = HostFn("cpu")
    /\ IdleFrames

\* ------------------------------------------------------- GPU selector chain
\* input of the next node: the first node's input, or output slot 0 of the
\* node before it
NextSelectorInput ==
    IF sel_outputs = <<>> THEN sel_input
    ELSE sel_outputs[Len(sel_outputs)].items[1]

\* the host runs the next GPU Selector (Any) node of the chain
RunSelector ==
    /\ Len(sel_outputs) < MaxChain
    /\ sel_outputs # <<>> => ~IsRaise(sel_outputs[Len(sel_outputs)])
    /\ sel_outputs' = Append(sel_outputs, move_to_device(NextSelectorInput, sel_device))
    /\ UNCHANGED <<sel_input, sel_device, accessor, framevars, started>>

NextReloc == RunSelector
SpecReloc == InitReloc /\ [][NextReloc]_vars

\* ------------------------------------------------------------- execute()
\* execute(device, **kwargs) is called on a wrapper of class w by thread p
Call(p, w, d, kw) ==
    /\ pc[p] = "idle"
    /\ pc' = [pc EXCEPT ![p] = IF w \in Placeholders THEN "lookup" ELSE "resolve"]
    /\ wrapper' = [wrapper EXCEPT ![p] = w]
    /\ device' = [device EXCEPT ![p] = d]
    /\ kwargs' = [kwargs EXCEPT ![p] = kw]
    /\ entry_accessor' = [entry_accessor EXCEPT ![p] = accessor]
    /\ UNCHANGED <<selvars, accessor, target_device, todo, moved_kwargs,
                   original_get_device, unit_result, result, exc, logged,
                   outcome, to_calls>>

\* the placeholder wrappers scan sys.modules for the VHS class; found tells
\* whether a loaded module registers it
Lookup(p, found) ==
    /\ pc[p] = "lookup"
    /\ IF found
       THEN /\ pc' = [pc EXCEPT ![p] = "resolve"]
            /\ UNCHANGED outcome
       ELSE /\ pc' = [pc EXCEPT ![p] = "done"]
            /\ outcome' = [outcome EXCEPT ![p] = Raise(NotFoundError)]
    /\ UNCHANGED <<started, selvars, accessor, wrapper, device, kwargs, target_device,
                   todo, moved_kwargs, original_get_device, unit_result, result,
                   exc, logged, entry_accessor, to_calls>>

\* A mutation of Resolve: the device string is handed on without being parsed.
ResolveUnparsed(p) ==
    /\ pc[p] = "resolve"
    /\ target_device' = [target_device EXCEPT ![p] = device[p]]
    /\ todo' = [todo EXCEPT ![p] = ItemOrder(kwargs[p], 1)]
    /\ pc' = [pc EXCEPT ![p] = "move_inputs"]
    /\ UNCHANGED <<started, selvars, accessor, wrapper, device, kwargs, moved_kwargs,
                   original_get_device, unit_result, result, exc, logged, outcome,
                   entry_accessor, to_calls>>

\* target_device = torch.device(device)
Resolve(p) ==
    /\ pc[p] = "resolve"
    /\ IF device[p] \in Parseable
       THEN /\ target_device' = [target_device EXCEPT ![p] = device[p]]
            /\ todo' = [todo EXCEPT ![p] = ItemOrder(kwargs[p], 1)]
            /\ pc' = [pc EXCEPT ![p] = "move_inputs"]
            /\ UNCHANGED outcome
       ELSE /\ pc' = [pc EXCEPT ![p] = "done"]
            /\ outcome' = [outcome EXCEPT ![p] = Raise(DeviceError)]
            /\ UNCHANGED <<target_device, todo>>
    /\ UNCHANGED <<started, selvars, accessor, wrapper, device, kwargs, moved_kwargs,
                   original_get_device, unit_result, result, exc, logged,
                   entry_accessor, to_calls>>

\* one turn of "for key, value in kwargs.items()"
MoveInput(p) ==
    /\ pc[p] = "move_inputs"
    /\ todo[p] # <<>>
    /\ LET key == Head(todo[p])
           value == kwargs[p][key]
           moved == MoveInputValue(value, target_device[p])
       IN  /\ to_calls' = [to_calls EXCEPT ![p] = @ + (IF IsTensor(value) THEN 1 ELSE 0)]
           /\ IF IsRaise(moved)
              THEN /\ pc' = [pc EXCEPT ![p] = "done"]
                   /\ outcome' = [outcome EXCEPT ![p] = moved]
                   /\ UNCHANGED <<todo, moved_kwargs>>
              ELSE /\ moved_kwargs' =
                        [moved_kwargs EXCEPT ![p] =
                            [k \in DOMAIN @ \cup {key} |-> IF k = key THEN moved ELSE @[k]]]
                   /\ todo' = [todo EXCEPT ![p] = Tail(@)]
                   /\ UNCHANGED <<pc, outcome>>
    /\ UNCHANGED <<started, selvars, accessor, wrapper, device, kwargs, target_device,
                   original_get_device, unit_result, result, exc, logged,
                   entry_accessor>>

\* A mutation of Save: the function saved is the one seen when execute() began.
SaveAtCall(p) ==
    /\ pc[p] = "move_inputs"
    /\ todo[p] = <<>>
    /\ original_get_device' = [original_get_device EXCEPT ![p] = entry_accessor[p]]
    /\ pc' = [pc EXCEPT ![p] = "override"]
    /\ UNCHANGED <<started, selvars, accessor, wrapper, device, kwargs, target_device,
                   todo, moved_kwargs, unit_result, result, exc, logged, outcome,
                   entry_accessor, to_calls>>

\* original_get_device = model_management.get_torch_device
Save(p) ==
    /\ pc[p] = "move_inputs"
    /\ todo[p] = <<>>
    /\ original_get_device' = [original_get_device EXCEPT ![p] = accessor]
    /\ pc' = [pc EXCEPT ![p] = "override"]
    /\ UNCHANGED <<started, selvars, accessor, wrapper, device, kwargs, target_device,
                   todo, moved_kwargs, unit_result, result, exc, logged, outcome,
                   entry_accessor, to_calls>>

\* A mutation of Override: the assignment to the accessor is missing.
OverrideMissing(p) ==
    /\ pc[p] = "override"
    /\ pc' = [pc EXCEPT ![p] = "construct"]
    /\ UNCHANGED <<started, selvars, accessor, wrapper, device, kwargs, target_device,
                   todo, moved_kwargs, original_get_device, unit_result, result, exc,
                   logged, outcome, entry_accessor, to_calls>>

\* model_management.get_torch_device = lambda: target_device; the wrapped
\* class's constructor starts
Override(p) ==
    /\ pc[p] = "override"
    /\ accessor' = Lambda(target_device[p])
    /\ pc' = [pc EXCEPT ![p] = "construct"]
    /\ UNCHANGED <<started, selvars, wrapper, device, kwargs, target_device, todo,
                   moved_kwargs, original_get_device, unit_result, result, exc,
                   logged, outcome, entry_accessor, to_calls>>

\* vhs_node = self.vhs_node_class(): the constructor returns (c is the node)
\* or raises (c is the exception, raised); then the entry point starts
Construct(p, c) ==
    /\ pc[p] = "construct"
    /\ IF IsRaise(c)
       THEN /\ exc' = [exc EXCEPT ![p] = c.exc]
            /\ pc' = [pc EXCEPT ![p] = AfterRaise(wrapper[p], c.exc)]
       ELSE /\ pc' = [pc EXCEPT ![p] = "invoke"]
            /\ UNCHANGED exc
    /\ UNCHANGED <<started, selvars, accessor, wrapper, device, kwargs, target_device,
                   todo, moved_kwargs, original_get_device, unit_result, result,
                   logged, outcome, entry_accessor, to_calls>>

\* A mutation of Invoke: the accessor is restored as soon as the entry point
\* returns, before the outputs are moved.
InvokeThenRestore(p, r) ==
    /\ pc[p] = "invoke"
    /\ unit_result' = [unit_result EXCEPT ![p] = r]
    /\ IF IsRaise(r)
       THEN /\ exc' = [exc EXCEPT ![p] = r.exc]
            /\ pc' = [pc EXCEPT ![p] = AfterRaise(wrapper[p], r.exc)]
            /\ UNCHANGED <<result, accessor>>
       ELSE /\ result' = [result EXCEPT ![p] = r]
            /\ accessor' = original_get_device[p]
            /\ pc' = [pc EXCEPT ![p] =
                        IF wrapper[p] = VideoCombine THEN "finally" ELSE "move_outputs"]
            /\ UNCHANGED exc
    /\ UNCHANGED <<started, selvars, wrapper, device, kwargs, target_device,
                   todo, moved_kwargs, original_get_device, logged, outcome,
                   entry_accessor, to_calls>>

\* result = getattr(vhs_node, function_name)(**moved_kwargs): the entry point,
\* which has been running since the constructor returned, returns r or raises
Invoke(p, r) ==
    /\ pc[p] = "invoke"
    /\ unit_result' = [unit_result EXCEPT ![p] = r]
    /\ IF IsRaise(r)
       THEN /\ exc' = [exc EXCEPT ![p] = r.exc]
            /\ pc' = [pc EXCEPT ![p] = AfterRaise(wrapper[p], r.exc)]
            /\ UNCHANGED result
       ELSE /\ result' = [result EXCEPT ![p] = r]
            /\ pc' = [pc EXCEPT ![p] =
                        IF wrapper[p] = VideoCombine THEN "finally" ELSE "move_outputs"]
            /\ UNCHANGED exc
    /\ UNCHANGED <<started, selvars, accessor, wrapper, device, kwargs, target_device,
                   todo, moved_kwargs, original_get_device, logged, outcome,
                   entry_accessor, to_calls>>

\* "Move output tensors to target device", then return result
MoveOutputs(p) ==
    /\ pc[p] = "move_outputs"
    /\ LET moved == MoveResult(result[p], target_device[p])
       IN  /\ to_calls' = [to_calls EXCEPT ![p] =
                              @ + ResultToCalls(result[p], target_device[p])]
           /\ IF IsRaise(moved)
              THEN /\ exc' = [exc EXCEPT ![p] = moved.exc]
                   /\ pc' = [pc EXCEPT ![p] = AfterRaise(wrapper[p], moved.exc)]
                   /\ UNCHANGED result
              ELSE /\ result' = [result EXCEPT ![p] = moved]
                   /\ pc' = [pc EXCEPT ![p] = "finally"]
                   /\ UNCHANGED exc
    /\ UNCHANGED <<started, selvars, accessor, wrapper, device, kwargs, target_device,
                   todo, moved_kwargs, original_get_device, unit_result, logged,
                   outcome, entry_accessor>>

\* A mutation of Except: the exception is logged and not raised again.
ExceptSwallow(p) ==
    /\ pc[p] = "except"
    /\ logged' = [logged EXCEPT ![p] = TRUE]
    /\ exc' = [exc EXCEPT ![p] = NoExc]
    /\ result' = [result EXCEPT ![p] = None]
    /\ pc' = [pc EXCEPT ![p] = "finally"]
    /\ UNCHANGED <<started, selvars, accessor, wrapper, device, kwargs, target_device,
                   todo, moved_kwargs, original_get_device, unit_result,
                   outcome, entry_accessor, to_calls>>

\* except Exception as e: logger.error(...); raise
Except(p) ==
    /\ pc[p] = "except"
    /\ logged' = [logged EXCEPT ![p] = TRUE]
    /\ pc' = [pc EXCEPT ![p] = "finally"]
    /\ UNCHANGED <<started, selvars, accessor, wrapper, device, kwargs, target_device,
                   todo, moved_kwargs, original_get_device, unit_result, result,
                   exc, outcome, entry_accessor, to_calls>>

\* A mutation of Finally: the accessor is put back only when no exception
\* is propagating.
FinallyOnSuccessOnly(p) ==
    /\ pc[p] = "finally"
    /\ accessor' = IF exc[p] = NoExc THEN original_get_device[p] ELSE accessor
    /\ outcome' = [outcome EXCEPT ![p] =
                      IF exc[p] = NoExc THEN result[p] ELSE Raise(exc[p])]
    /\ pc' = [pc EXCEPT ![p] = "done"]
    /\ UNCHANGED <<started, selvars, wrapper, device, kwargs, target_device, todo,
                   moved_kwargs, original_get_device, unit_result, result, exc,
                   logged, entry_accessor, to_calls>>

\* A mutation of Finally: the accessor is set back to the function seen when
\* execute() began, not to the one saved before the override.
FinallyRestoreEntry(p) ==
    /\ pc[p] = "finally"
    /\ accessor' = entry_accessor[p]
    /\ outcome' = [outcome EXCEPT ![p] =
                      IF exc[p] = NoExc THEN result[p] ELSE Raise(exc[p])]
    /\ pc' = [pc EXCEPT ![p] = "done"]
    /\ UNCHANGED <<started, selvars, wrapper, device, kwargs, target_device, todo,
                   moved_kwargs, original_get_device, unit_result, result, exc,
                   logged, entry_accessor, to_calls>>

\* finally: model_management.get_torch_device = original_get_device; then the
\* frame exits with the returned result or the propagating exception
Finally(p) ==
    /\ pc[p] = "finally"
    /\ accessor' = original_get_device[p]
    /\ outcome' = [outcome EXCEPT ![p] =
                      IF exc[p] = NoExc THEN result[p] ELSE Raise(exc[p])]
    /\ pc' = [pc EXCEPT ![p] = "done"]
    /\ UNCHANGED <<started, selvars, wrapper, device, kwargs, target_device, todo,
                   moved_kwargs, original_get_device, unit_result, result, exc,
                   logged, entry_accessor, to_calls>>

\* the caller has taken the outcome; the frame is gone
Return(p) ==
    /\ pc[p] = "done"
    /\ pc' = [pc EXCEPT ![p] = "idle"]
    /\ wrapper' = [wrapper EXCEPT ![p] = "none"]
    /\ device' = [device EXCEPT ![p] = "none"]
    /\ kwargs' = [kwargs EXCEPT ![p] = Empty]
    /\ target_device' = [target_device EXCEPT ![p] = "none"]
    /\ todo' = [todo EXCEPT ![p] = <<>>]
    /\ moved_kwargs' = [moved_kwargs EXCEPT ![p] = Empty]
    /\ original_get_device' = [original_get_device EXCEPT ![p] = NoFn]
    /\ unit_result' = [unit_result EXCEPT ![p] = NoResult]
    /\ result' = [result EXCEPT ![p] = NoResult]
    /\ exc' = [exc EXCEPT ![p] = NoExc]
    /\ logged' = [logged EXCEPT ![p] = FALSE]
    /\ outcome' = [outcome EXCEPT ![p] = NoResult]
    /\ entry_accessor' = [entry_accessor EXCEPT ![p] = NoFn]
    /\ to_calls' = [to_calls EXCEPT ![p] = 0]
    /\ UNCHANGED <<started, selvars, accessor>>

\* --------------------------------------------------------- specifications
\* what a constructor call may do, and what an entry point may do
Constructions == {Opaque("node")} \cup {Raise(e) : e \in UnitExceptions}
FewConstructions == {Opaque("node")}
UnitOutcomes(returns) == returns \cup {Raise(e) : e \in UnitExceptions}

\* steps of a frame that is already running
Step(p, constructions, returns) ==
    \/ \E found \in BOOLEAN : Lookup(p, found)
    \/ Resolve(p)
    \/ MoveInput(p)
    \/ Save(p)
    \/ Override(p)
    \/ \E c \in constructions : Construct(p, c)
    \/ \E r \in UnitOutcomes(returns) : Invoke(p, r)
    \/ MoveOutputs(p)
    \/ Except(p)
    \/ Finally(p)
    \/ Return(p)

\* the host runs one node at a time: a call starts only when no frame is live
NextSeq ==
    \E p \in Procs :
        \/ /\ \A q \in Procs : pc[q] = "idle"
           /\ \E w \in Wrappers, d \in DeviceIds, kw \in Payloads : Call(p, w, d, kw)
           /\ UNCHANGED started
        \/ Step(p, Constructions, UnitReturns)
SpecSeq == Init /\ [][NextSeq]_vars

\* two threads call execute() with no coordination, MaxCalls times in all
Next ==
    \E p \in Procs :
        \/ /\ started < MaxCalls
           /\ started' = started + 1
           /\ \E w \in Wrappers, d \in FewDevices, kw \in FewPayloads : Call(p, w, d, kw)
        \/ Step(p, FewConstructions, FewReturns)
Spec == Init /\ [][Next]_vars

\* one thread, reentrant calls: frame Outer is called when nothing runs; frame
\* Inner is called from inside Outer's entry point, and Outer stands still
\* until Inner's frame is gone
Outer == "A"
Inner == "B"
NextNested ==
    \/ /\ \A q \in Procs : pc[q] = "idle"
       /\ \E w \in Wrappers, d \in FewDevices, kw \in FewPayloads : Call(Outer, w, d, kw)
       /\ UNCHANGED started
    \/ /\ pc[Outer] = "invoke"
       /\ \E w \in Wrappers, d \in FewDevices, kw \in FewPayloads : Call(Inner, w, d, kw)
       /\ UNCHANGED started
    \/ /\ pc[Inner] = "idle"
       /\ Step(Outer, Constructions, FewReturns)
    \/ Step(Inner, Constructions, FewReturns)
SpecNested == Init /\ [][NextNested]_vars

\* ================================================================== claims
\* v with its tensor moved to d when v is a tensor, v itself otherwise
Moved(v, d) == IF IsTensor(v) THEN Tensor(d, v.data) ELSE v

\* input_data of the i-th selector node of the chain
SelectorInput(i) == IF i = 1 THEN sel_input ELSE sel_outputs[i - 1].items[1]

\* v is a tensor or directly holds one
HoldsTensor(v) ==
    \/ IsTensor(v)
    \/ /\ v.kind \in {"list", "tuple"}
       /\ \E j \in 1..Len(v.items) : IsTensor(v.items[j])
    \/ /\ v.kind = "dict"
       /\ \E k \in DOMAIN v.map : IsTensor(v.map[k])

\* v is a tensor away from d or directly holds one
HoldsTensorOff(v, d) ==
    \/ IsTensor(v) /\ v.dev # d
    \/ /\ v.kind \in {"list", "tuple"}
       /\ \E j \in 1..Len(v.items) : IsTensor(v.items[j]) /\ v.items[j].dev # d
    \/ /\ v.kind = "dict"
       /\ \E k \in DOMAIN v.map : IsTensor(v.map[k]) /\ v.map[k].dev # d

\* out is the structure-preserving relocation of v to d
PreservesStructure(v, out, d) ==
    /\ out.kind = v.kind
    /\ IsTensor(v) => out.dev = d /\ out.data = v.data
    /\ v.kind \in {"list", "tuple"} =>
          /\ Len(out.items) = Len(v.items)
          /\ \A j \in 1..Len(v.items) : out.items[j] = Moved(v.items[j], d)
    /\ v.kind = "dict" =>
          /\ DOMAIN out.map = DOMAIN v.map
          /\ \A k \in DOMAIN v.map : out.map[k] = Moved(v.map[k], d)
    /\ v.kind \notin {"tensor", "list", "tuple", "dict"} => out = v

C8_Idempotent ==
    \A i \in 2..Len(sel_outputs) : sel_outputs[i] = sel_outputs[i - 1]

\* a value holding a tensor away from the device has been relocated twice
C8_Witness ==
    /\ Len(sel_outputs) = 2
    /\ HoldsTensorOff(sel_input, sel_device)
    /\ sel_input.kind \in {"list", "tuple", "dict"}

KeyboardInterrupt == [type |-> "KeyboardInterrupt", isException |-> FALSE]
ValueError == [type |-> "ValueError", isException |-> TRUE]
\* the entry point of p's frame returned a value
UnitReturned(p) == unit_result[p].kind \notin {"unset", "raise"}

\* C1: when a call of execute() that overlapped no other call has exited, by
\* returning or by raising anything from anywhere, get_torch_device is the very
\* function it was when execute() was called.
C1_RestoredOnExit ==
    \A p \in Procs : pc[p] = "done" => accessor = entry_accessor[p]

\* the entry point raised a KeyboardInterrupt, which is no Exception, under an
\* override that differed from the host's device, and execute() has exited
C1_Witness ==
    \E p \in Procs :
        /\ pc[p] = "done"
        /\ unit_result[p] = Raise(KeyboardInterrupt)
        /\ outcome[p] = Raise(KeyboardInterrupt)
        /\ entry_accessor[p].dev # target_device[p]

\* C2: while the wrapped entry point of the one call in flight is executing,
\* get_torch_device() returns the device passed to execute(), whatever the
\* host's function returned before.
C2_OverrideWhileInvoking ==
    \A p \in Procs :
        pc[p] = "invoke" => accessor.fn = "lambda" /\ get_torch_device = device[p]

\* the entry point runs on a device other than the one the host reported
C2_Witness ==
    \E p \in Procs : pc[p] = "invoke" /\ entry_accessor[p].dev # device[p]

\* C3: when the entry point returned normally, what execute() returns is of
\* the same kind as what the entry point returned and holds no tensor (as the
\* value itself, an item of a tuple or list, a value of a mapping) away from
\* the target device, for every wrapper class.
C3_OutputsRelocated ==
    \A p \in Procs :
        (pc[p] = "done" /\ UnitReturned(p) /\ ~IsRaise(outcome[p])) =>
            /\ outcome[p].kind = unit_result[p].kind
            /\ ~HoldsTensorOff(outcome[p], target_device[p])

\* C4: when the entry point is invoked, the payload has the caller's keys, no
\* value of it is or directly holds a tensor away from the target device, and
\* values holding no tensor are the caller's own.
C4_InputsRelocated ==
    \A p \in Procs :
        pc[p] = "invoke" =>
            /\ DOMAIN moved_kwargs[p] = DOMAIN kwargs[p]
            /\ \A k \in DOMAIN kwargs[p] :
                  /\ ~HoldsTensorOff(moved_kwargs[p][k], target_device[p])
                  /\ ~HoldsTensor(kwargs[p][k]) => moved_kwargs[p][k] = kwargs[p][k]

\* C5: an exception raised by the wrapped entry point is the exception
\* execute() raises to its caller.
C5_SameException ==
    \A p \in Procs :
        (pc[p] = "done" /\ IsRaise(unit_result[p])) => outcome[p] = unit_result[p]

\* the base wrapper's except clause has logged a ValueError of the entry point
\* and execute() has exited
C5_Witness ==
    \E p \in Procs :
        /\ pc[p] = "done"
        /\ wrapper[p] = Base
        /\ unit_result[p] = Raise(ValueError)
        /\ logged[p]

\* C6: a device string torch.device() rejects makes execute() raise, and when
\* execute() has raised for the device string or for the missing VHS class, no
\* tensor.to() was called, no input was stored as moved, the accessor was not
\* read and it is what it was at the call.
C6_FailBeforeMutation ==
    \A p \in Procs :
        pc[p] = "done" =>
            /\ device[p] \notin Parseable =>
                  outcome[p] \in {Raise(DeviceError), Raise(NotFoundError)}
            /\ outcome[p] \in {Raise(DeviceError), Raise(NotFoundError)} =>
                  /\ to_calls[p] = 0
                  /\ moved_kwargs[p] = Empty
                  /\ original_get_device[p] = NoFn
                  /\ accessor = entry_accessor[p]

\* a placeholder wrapper that found its class was given a tensor and a device
\* string that does not parse, and has raised
C6_Witness ==
    \E p \in Procs :
        /\ pc[p] = "done"
        /\ wrapper[p] \in Placeholders
        /\ outcome[p] = Raise(DeviceError)
        /\ \E k \in DOMAIN kwargs[p] : IsTensor(kwargs[p][k])

\* C9: when a thread q reads the accessor to save it while another thread p's
\* entry point is executing under p's override, what q saves as the original
\* function is p's lambda: p's device has leaked into q's call.
C9_SaveReadsOthersOverride ==
    [][\A p, q \in Procs :
          (/\ p # q
           /\ pc[p] = "invoke"
           /\ accessor = Lambda(target_device[p])
           /\ pc[q] = "move_inputs"
           /\ pc'[q] = "override")
          => original_get_device'[q] = Lambda(target_device[p])]_vars

\* two entry points are executing on different devices; q saved p's lambda as
\* the original function, and p's unit runs while the accessor returns q's device
C9_Witness ==
    \E p, q \in Procs :
        /\ p # q
        /\ pc[p] = "invoke"
        /\ pc[q] = "invoke"
        /\ target_device[p] # target_device[q]
        /\ original_get_device[q] = Lambda(target_device[p])
        /\ get_torch_device = target_device[q]

\* C10: as first stated: tensors are relocated only while the accessor is not
\* overridden, inputs before the override and outputs after the restore, so no
\* relocation error propagates while the override is installed.
C10_RelocationOutsideOverride ==
    \A p \in Procs :
        /\ pc[p] \in {"move_inputs", "move_outputs"} => accessor = entry_accessor[p]
        /\ (pc[p] \in {"except", "finally"} /\ exc[p] = RelocationError) =>
              accessor = entry_accessor[p]

\* C10, amended: inputs are relocated before the override is installed; outputs
\* are relocated while the override is still installed, before the restore
\* (VHS_VideoCombineWrapper relocates no outputs); an error of the output
\* relocation propagates through the try block under the override, and the
\* accessor is restored before the error reaches the caller.
C10_OutputsMovedUnderOverride ==
    \A p \in Procs :
        /\ pc[p] = "move_inputs" => accessor = entry_accessor[p]
        /\ pc[p] = "move_outputs" =>
              /\ accessor = Lambda(target_device[p])
              /\ wrapper[p] # VideoCombine
        /\ (pc[p] \in {"except", "finally"} /\ exc[p] = RelocationError) =>
              accessor = Lambda(target_device[p])
        /\ (pc[p] = "done" /\ outcome[p] = Raise(RelocationError)) =>
              accessor = entry_accessor[p]

\* relocating the outputs has failed and the error is about to leave the try
\* block, the override still installed
C10_Witness ==
    \E p \in Procs :
        /\ pc[p] = "finally"
        /\ exc[p] = RelocationError
        /\ UnitReturned(p)
        /\ accessor = Lambda(target_device[p])

\* C11: two calls overlap without nesting: q saved the accessor while p's
\* override was installed, and p, which had saved the host's function, has
\* exited first. The step in which q restores then leaves the accessor
\* returning p's device, not the function it was before the calls; and while no
\* frame is running nothing changes the accessor, so it stays that way after
\* both calls have returned.
C11_StaleOverrideSurvives ==
    [][/\ \A p, q \in Procs :
            (/\ p # q
             /\ pc[p] = "done"
             /\ original_get_device[p].fn = "host"
             /\ original_get_device[q] = Lambda(target_device[p])
             /\ pc[q] = "finally"
             /\ pc'[q] = "done")
            => /\ accessor' = Lambda(target_device[p])
               /\ accessor' # original_get_device[p]
       /\ (\A r \in Procs : pc[r] \in {"idle", "done"} /\ pc'[r] \in {"idle", "done"})
            => accessor' = accessor]_vars

\* both calls have exited, on different devices, q after p; the accessor is
\* p's lambda and not the host's function that p saved and q was called under
C11_Witness ==
    \E p, q \in Procs :
        /\ p # q
        /\ pc[p] = "done"
        /\ pc[q] = "done"
        /\ target_device[p] # target_device[q]
        /\ entry_accessor[p].fn = "host"
        /\ entry_accessor[q] = entry_accessor[p]
        /\ original_get_device[p] = entry_accessor[p]
        /\ original_get_device[q] = Lambda(target_device[p])
        /\ accessor = Lambda(target_device[p])

\* C12: with an inner call made from inside the outer call's entry point, the
\* inner entry point runs with the accessor returning the inner device; once
\* the inner call has exited, by return or by exception, and until the outer
\* entry point ends, the accessor is the outer call's lambda again; and when
\* the outer call has exited the accessor is what it was before the outer call.
C12_NestedUnwindsLIFO ==
    /\ pc[Inner] = "invoke" =>
          accessor.fn = "lambda" /\ get_torch_device = target_device[Inner]
    /\ (pc[Outer] = "invoke" /\ pc[Inner] \in {"idle", "done"}) =>
          accessor = Lambda(target_device[Outer])
    /\ pc[Outer] = "done" => pc[Inner] = "idle" /\ accessor = entry_accessor[Outer]

\* the inner entry point ran on another device than the outer one and raised;
\* the inner call has exited and the outer entry point is still executing
C12_Witness ==
    /\ pc[Outer] = "invoke"
    /\ pc[Inner] = "done"
    /\ IsRaise(unit_result[Inner])
    /\ outcome[Inner] = unit_result[Inner]
    /\ target_device[Inner] # target_device[Outer]
    /\ original_get_device[Inner] = Lambda(target_device[Outer])
====
